---- MODULE Spec2Model ----
(***************************************************************************)
(* GaloisField (src/main.py): table-driven arithmetic over GF(2^m).        *)
(*                                                                         *)
(* The constructor is modelled one loop iteration per step; the five       *)
(* queries are modelled one call per step on the constructed object.       *)
(* Python lists are sequences (list[k] is seq[k+1]); Python integers are   *)
(* unbounded, and every value of the model stays far below 2^31.           *)
(***************************************************************************)
EXTENDS Integers, Sequences, FiniteSets

\* largest field degree m explored
MaxM == 4

VARIABLES m, primitive_poly, field_size, mask, exp_table, log_table,
          x, i, pc, op, arg_a, arg_b, result, error, reads

vars == <<m, primitive_poly, field_size, mask, exp_table, log_table,
          x, i, pc, op, arg_a, arg_b, result, error, reads>>

----------------------------------------------------------------------------
(* Integer operators of Python used by the source *)

RECURSIVE Pow2(_)
\* 1 << n
Pow2(n) == IF n = 0 THEN 1 ELSE 2 * Pow2(n - 1)

RECURSIVE BitXor(_, _)
\* p ^ q on non-negative integers
BitXor(p, q) ==
    IF p = 0 THEN q
    ELSE IF q = 0 THEN p
    ELSE (((p % 2) + (q % 2)) % 2) + 2 * BitXor(p \div 2, q \div 2)

RECURSIVE BitAnd(_, _)
\* p & q on non-negative integers
BitAnd(p, q) ==
    IF p = 0 \/ q = 0 THEN 0
    ELSE ((p % 2) * (q % 2)) + 2 * BitAnd(p \div 2, q \div 2)

\* the remainder that truncates toward zero (the sign follows the dividend)
TruncMod(p, n) == IF p >= 0 THEN p % n ELSE 0 - ((0 - p) % n)

\* p % n of Python for n > 0: the floor remainder, always in 0..n-1
PyMod(p, n) == p % n

\* [0] * n
Zeros(n) == [k \in 1..n |-> 0]

\* list[k] of Python: a negative index counts from the end of the list
ListGet(list, k) == IF k >= 0 THEN list[k + 1] ELSE list[Len(list) + k + 1]

\* whether list[k] is a valid subscript
InRange(list, k) == k >= 0 - Len(list) /\ k < Len(list)

\* list[k] = v for a non-negative in-range k
ListSet(list, k, v) == [list EXCEPT ![k + 1] = v]

----------------------------------------------------------------------------
(* GaloisField._multiply_without_tables *)

RECURSIVE MulLoop(_, _, _)
\* the while loop, from a state (a, b, result) of its three locals
MulLoop(p, q, acc) ==
    IF q = 0 THEN acc
    ELSE LET acc1 == IF q % 2 = 1 THEN BitXor(acc, p) ELSE acc
             p1   == 2 * p
             p2   == IF BitAnd(p1, field_size) # 0
                     THEN BitXor(p1, primitive_poly) ELSE p1
         IN  MulLoop(p2, q \div 2, acc1)

_multiply_without_tables(p, q) == MulLoop(p, q, 0)

----------------------------------------------------------------------------
(* The outcome of one query call *)

Return(v, r) == [value |-> <<v>>, error |-> "", reads |-> r]

Raise(msg) == [value |-> <<>>, error |-> msg, reads |-> <<>>]

\* table[k] for the exponent table of an object, recording the subscript read
ExpLookup(table, k) ==
    IF InRange(table, k) THEN Return(ListGet(table, k), <<k>>)
    ELSE Raise("IndexError")

\* the value a call returned (used only on calls that returned)
ValueOf(outcome) == outcome.value[1]

----------------------------------------------------------------------------
(* The queries.  The _on operators take the exponent table of the object    *)
(* (self.exp_table) as an argument; the others read the object of the state. *)

\* add as the sum of the two integers
add_as_sum(p, q) == p + q

add(p, q) == BitXor(p, q)

subtract(p, q) == add(p, q)

\* multiply with the remainder taken modulo field_size
multiply_on_modsize(table, p, q) ==
    IF p = 0 \/ q = 0 THEN Return(0, <<>>)
    ELSE ExpLookup(table, PyMod(ListGet(log_table, p) + ListGet(log_table, q),
                                field_size))

\* multiply without the shortcut for a zero operand
multiply_on_noshortcut(table, p, q) ==
    ExpLookup(table, PyMod(ListGet(log_table, p) + ListGet(log_table, q),
                           field_size - 1))

multiply_on(table, p, q) ==
    IF p = 0 \/ q = 0 THEN Return(0, <<>>)
    ELSE ExpLookup(table, PyMod(ListGet(log_table, p) + ListGet(log_table, q),
                                field_size - 1))

multiply(p, q) == ValueOf(multiply_on(exp_table, p, q))

\* divide that adds the logarithms
divide_on_added(table, p, q) ==
    IF q = 0 THEN Raise("Division by zero")
    ELSE IF p = 0 THEN Return(0, <<>>)
    ELSE ExpLookup(table, PyMod(ListGet(log_table, p) + ListGet(log_table, q),
                                field_size - 1))

\* divide that tests the dividend before the divisor
divide_on_dividend_first(table, p, q) ==
    IF p = 0 THEN Return(0, <<>>)
    ELSE IF q = 0 THEN Raise("Division by zero")
    ELSE ExpLookup(table, PyMod(ListGet(log_table, p) - ListGet(log_table, q),
                                field_size - 1))

divide_on(table, p, q) ==
    IF q = 0 THEN Raise("Division by zero")
    ELSE IF p = 0 THEN Return(0, <<>>)
    ELSE ExpLookup(table, PyMod(ListGet(log_table, p) - ListGet(log_table, q),
                                field_size - 1))

divide(p, q) == ValueOf(divide_on(exp_table, p, q))

\* inverse that does not negate the logarithm
inverse_on_plain(table, p) ==
    IF p = 0 THEN Raise("Zero has no multiplicative inverse")
    ELSE ExpLookup(table, PyMod(ListGet(log_table, p), field_size - 1))

inverse_on(table, p) ==
    IF p = 0 THEN Raise("Zero has no multiplicative inverse")
    ELSE ExpLookup(table, PyMod(0 - ListGet(log_table, p), field_size - 1))

inverse(p) == ValueOf(inverse_on(exp_table, p))

----------------------------------------------------------------------------
(* Construction *)

\* the two constructor arguments explored
Degrees == 1..MaxM
Polys(mm) == 1..(Pow2(mm + 1) - 1)

Init ==
    /\ m \in Degrees
    /\ primitive_poly \in Polys(m)
    /\ field_size = Pow2(m)
    /\ mask = field_size - 1
    /\ exp_table = Zeros(2 * field_size)
    /\ log_table = Zeros(field_size)
    /\ x = 1
    /\ i = 0
    /\ pc = "loop"
    /\ op = "none"
    /\ arg_a = 0
    /\ arg_b = 0
    /\ result = <<>>
    /\ error = ""
    /\ reads = <<>>

\* the second copy stored one place too far
SecondCopyIndex_shifted(k) == k + field_size

\* where the body of the constructor's loop stores the second copy of x
SecondCopyIndex(k) == k + field_size - 1

\* the logarithm stored one too large
LogValue_next(k) == k + 1

\* the value the loop body stores in log_table[x] at iteration k
LogValue(k) == k

\* a loop that runs once too often
LoopCount_plus_one == field_size

\* the number of iterations of the constructor's loop, range(field_size - 1)
LoopCount == field_size - 1

\* One iteration of the constructor's for loop.  i is the number of
\* iterations completed, which is also the value the loop variable takes next.
\* A subscript outside log_table raises IndexError out of the constructor.
LoopStep ==
    /\ pc = "loop"
    /\ i < LoopCount
    /\ exp_table' = ListSet(ListSet(exp_table, i, x), SecondCopyIndex(i), x)
    /\ IF InRange(log_table, x)
       THEN /\ log_table' = ListSet(log_table, x, LogValue(i))
            /\ x' = _multiply_without_tables(x, 2)
            /\ i' = i + 1
            /\ pc' = IF i + 1 < LoopCount THEN "loop" ELSE "ready"
            /\ error' = error
       ELSE /\ pc' = "error"
            /\ error' = "IndexError"
            /\ UNCHANGED <<log_table, x, i>>
    /\ UNCHANGED <<m, primitive_poly, field_size, mask,
                   op, arg_a, arg_b, result, reads>>

----------------------------------------------------------------------------
(* Query calls on the constructed object.  A call takes the caller from     *)
(* "ready" to "returned", where its outcome (value or error, and the        *)
(* subscripts of exp_table it read) is visible; the caller then goes on.    *)

Elements == 0..(field_size - 1)

Call(name, p, q, outcome) ==
    /\ pc = "ready"
    /\ pc' = "returned"
    /\ op' = name
    /\ arg_a' = p
    /\ arg_b' = q
    /\ result' = outcome.value
    /\ error' = outcome.error
    /\ reads' = outcome.reads
    /\ UNCHANGED <<m, primitive_poly, field_size, mask, exp_table, log_table,
                   x, i>>

Add == \E p \in Elements, q \in Elements :
          Call("add", p, q, Return(add(p, q), <<>>))

Subtract == \E p \in Elements, q \in Elements :
               Call("subtract", p, q, Return(subtract(p, q), <<>>))

Multiply == \E p \in Elements, q \in Elements :
               Call("multiply", p, q, multiply_on(exp_table, p, q))

Divide == \E p \in Elements, q \in Elements :
             Call("divide", p, q, divide_on(exp_table, p, q))

Inverse == \E p \in Elements : Call("inverse", p, 0, inverse_on(exp_table, p))

\* the caller has used the outcome and is ready for its next call
Continue ==
    /\ pc = "returned"
    /\ pc' = "ready"
    /\ op' = "none"
    /\ arg_a' = 0
    /\ arg_b' = 0
    /\ result' = <<>>
    /\ error' = ""
    /\ reads' = <<>>
    /\ UNCHANGED <<m, primitive_poly, field_size, mask, exp_table, log_table,
                   x, i>>

Next ==
    \/ LoopStep
    \/ Add
    \/ Subtract
    \/ Multiply
    \/ Divide
    \/ Inverse
    \/ Continue

Spec == Init /\ [][Next]_vars

----------------------------------------------------------------------------
(* Primitive polynomials, defined by polynomial division over GF(2) and     *)
(* independently of the constructor: a polynomial p of degree d with        *)
(* constant term 1 is primitive when it divides no x^k + 1 for              *)
(* 0 < k < 2^d - 1.                                                         *)

RECURSIVE Degree(_)
Degree(v) == IF v <= 1 THEN 0 ELSE 1 + Degree(v \div 2)

RECURSIVE PolyRem(_, _)
\* the remainder of the polynomial n divided by the polynomial p # 0
PolyRem(n, p) ==
    IF n = 0 \/ Degree(n) < Degree(p) THEN n
    ELSE PolyRem(BitXor(n, p * Pow2(Degree(n) - Degree(p))), p)

IsPrimitive(p, d) ==
    /\ p >= Pow2(d)
    /\ p < Pow2(d + 1)
    /\ p % 2 = 1
    /\ \A k \in 1..(Pow2(d) - 2) : PolyRem(Pow2(k) + 1, p) # 0

PrimitivePolys == {dp \in UNION {{<<d, p>> : p \in Polys(d)} : d \in Degrees} :
                      IsPrimitive(dp[2], dp[1])}

\* the object of the state was built from a primitive polynomial
Primitive == <<m, primitive_poly>> \in PrimitivePolys

\* the polynomial has degree m exactly and is not primitive, and m >= 2
NonPrimitiveInput ==
    /\ m >= 2
    /\ primitive_poly >= field_size
    /\ primitive_poly < 2 * field_size
    /\ ~Primitive

\* the constructor has returned
Constructed == pc \in {"ready", "returned"}

\* a call of the named query has returned a value
Returned(name) == pc = "returned" /\ op = name /\ error = "" /\ Len(result) = 1

----------------------------------------------------------------------------
(* C1: in a field built from a primitive polynomial, whenever divide(a, b)  *)
(* is called with b # 0 it returns a value r with multiply(r, b) = a.       *)
C1_DivideMultiplyRoundTrip ==
    (pc = "returned" /\ Primitive /\ op = "divide" /\ arg_b # 0)
        => /\ Returned("divide")
           /\ multiply(result[1], arg_b) = arg_a

C1_Witness ==
    /\ Primitive /\ Returned("divide")
    /\ arg_a > 1 /\ arg_b > 1 /\ arg_a # arg_b
    /\ multiply(result[1], arg_b) = arg_a

(* C2: in a field built from a primitive polynomial, inverse(a) for a # 0   *)
(* returns a value in 1..field_size-1 whose product with a is 1.            *)
C2_InverseLaw ==
    (pc = "returned" /\ Primitive /\ op = "inverse" /\ arg_a # 0)
        => /\ Returned("inverse")
           /\ result[1] \in 1..(field_size - 1)
           /\ multiply(arg_a, result[1]) = 1

C2_Witness ==
    /\ Primitive /\ Returned("inverse")
    /\ arg_a > 1 /\ result[1] # arg_a
    /\ multiply(arg_a, result[1]) = 1

(* C3: a call divide(a, 0), for every a and also a = 0, ends in the         *)
(* division-by-zero error, a call inverse(0) ends in the zero-inverse       *)
(* error; neither returns a value and neither changes the two tables.       *)
C3_ZeroOperandErrors ==
    [][(pc = "ready" /\ pc' = "returned")
         => /\ (op' = "divide" /\ arg_b' = 0)
                 => /\ error' = "Division by zero"
                    /\ result' = <<>>
                    /\ exp_table' = exp_table
                    /\ log_table' = log_table
            /\ (op' = "inverse" /\ arg_a' = 0)
                 => /\ error' = "Zero has no multiplicative inverse"
                    /\ result' = <<>>
                    /\ exp_table' = exp_table
                    /\ log_table' = log_table]_vars

C3_Witness ==
    /\ pc = "returned" /\ op = "divide" /\ arg_a = 0 /\ arg_b = 0
    /\ error = "Division by zero" /\ result = <<>>

\* the four calls of the scenario in GF(2^4) with 0b10011, a = 11, b = 13
C4_Scenario(name) ==
    /\ pc = "returned" /\ m = 4 /\ primitive_poly = 19
    /\ op = name /\ arg_a = 11
    /\ (name # "inverse" => arg_b = 13)

(* C4 as stated: the scenario yields add 6, multiply 10, divide 12 and      *)
(* inverse 13.                                                              *)
C4_Original ==
    /\ C4_Scenario("add") => result = <<6>>
    /\ C4_Scenario("multiply") => result = <<10>>
    /\ C4_Scenario("divide") => result = <<12>>
    /\ C4_Scenario("inverse") => result = <<13>>

(* C4 amended: in GF(2^4) with 0b10011, a = 11 and b = 13, add(a, b) = 6,   *)
(* multiply(a, b) = 6, divide(a, b) = 10 and inverse(a) = 5.                *)
C4_ConcreteScenario ==
    /\ C4_Scenario("add") => result = <<6>>
    /\ C4_Scenario("multiply") => result = <<6>>
    /\ C4_Scenario("divide") => result = <<10>>
    /\ C4_Scenario("inverse") => result = <<5>>

C4_Witness == C4_Scenario("multiply") /\ result = <<6>>

(* C5: in a field built from a primitive polynomial, multiply distributes   *)
(* over add for all a, b, c, zero included: the value returned by           *)
(* multiply(a, b) satisfies a*(b+c) = a*b + a*c for every c.                *)
C5_Distributivity ==
    (Primitive /\ Returned("multiply"))
        => \A c \in Elements :
              multiply(arg_a, add(arg_b, c)) = add(result[1], multiply(arg_a, c))

C5_Witness ==
    /\ Primitive /\ Returned("multiply")
    /\ arg_a > 1 /\ arg_b > 1
    /\ \E c \in Elements :
          /\ c > 1 /\ c # arg_b
          /\ multiply(arg_a, add(arg_b, c)) = add(result[1], multiply(arg_a, c))

\* the values the constructor stored at exp_table[0 .. field_size-2]
Powers == {ListGet(exp_table, k) : k \in 0..(field_size - 2)}

(* C6: after construction from a primitive polynomial, the entries          *)
(* exp_table[0 .. field_size-2] are pairwise distinct and are exactly the   *)
(* elements 1 .. field_size-1, log_table[exp_table[k]] = k for each such k, *)
(* and exp_table[log_table[e]] = e for each nonzero element e.              *)
C6_LogInvertsExp ==
    (Constructed /\ Primitive)
        => /\ \A j, k \in 0..(field_size - 2) :
                 ListGet(exp_table, j) = ListGet(exp_table, k) => j = k
           /\ Powers = 1..(field_size - 1)
           /\ \A k \in 0..(field_size - 2) :
                 ListGet(log_table, ListGet(exp_table, k)) = k
           /\ \A e \in 1..(field_size - 1) :
                 ListGet(exp_table, ListGet(log_table, e)) = e

C6_Witness ==
    /\ pc = "ready" /\ Primitive /\ m >= 3
    /\ Powers = 1..(field_size - 1)

(* C7 as stated: exp_table[j] = exp_table[j - (field_size-1)] for every j   *)
(* from field_size-1 to 2*field_size-2 inclusive.                           *)
C7_Original ==
    Constructed
        => \A j \in (field_size - 1)..(2 * field_size - 2) :
              ListGet(exp_table, j) = ListGet(exp_table, j - (field_size - 1))

(* C7 amended: after construction exp_table[j] = exp_table[j-(field_size-1)] *)
(* for every j from field_size-1 to 2*field_size-3 inclusive; the last two  *)
(* entries, at 2*field_size-2 and 2*field_size-1, are never written and     *)
(* stay 0.                                                                  *)
C7_SecondHalfDuplicates ==
    Constructed
        => /\ \A j \in (field_size - 1)..(2 * field_size - 3) :
                 ListGet(exp_table, j) = ListGet(exp_table, j - (field_size - 1))
           /\ ListGet(exp_table, 2 * field_size - 2) = 0
           /\ ListGet(exp_table, 2 * field_size - 1) = 0

C7_Witness ==
    /\ pc = "ready" /\ m >= 2
    /\ ListGet(exp_table, 2 * field_size - 3) = ListGet(exp_table, field_size - 2)
    /\ ListGet(exp_table, 2 * field_size - 3) # 0

(* C8: in a field built from a primitive polynomial, the value multiply     *)
(* returns equals _multiply_without_tables on the same operands, and lies   *)
(* in 0..field_size-1.                                                      *)
C8_TableMultiplyAgreesWithRaw ==
    (pc = "returned" /\ Primitive /\ op = "multiply")
        => /\ Returned("multiply")
           /\ result[1] = _multiply_without_tables(arg_a, arg_b)
           /\ result[1] \in 0..(field_size - 1)

C8_Witness ==
    /\ Primitive /\ Returned("multiply")
    /\ arg_a > 1 /\ arg_b > 1
    /\ arg_a * arg_b >= field_size
    /\ result[1] = _multiply_without_tables(arg_a, arg_b)

\* the values x has taken: those stored by the loop, then its final value
XValues == [k \in 1..field_size |->
               IF k < field_size THEN ListGet(exp_table, k - 1) ELSE x]

FirstHalf == SubSeq(exp_table, 1, field_size - 1)

\* the named query, answered from the given exponent table
QueryOn(table, name, p, q) ==
    CASE name = "multiply" -> multiply_on(table, p, q)
      [] name = "divide" -> divide_on(table, p, q)
      [] name = "inverse" -> inverse_on(table, p)

(* C10: for every valid call of multiply, divide (divisor # 0) and inverse  *)
(* (operand # 0), every subscript at which exp_table is read lies in        *)
(* 0..field_size-2, and the same call answered from the first field_size-1  *)
(* entries alone has the same outcome.                                      *)
C10_FirstHalfSuffices ==
    (/\ pc = "returned"
     /\ op \in {"multiply", "divide", "inverse"}
     /\ op = "divide" => arg_b # 0
     /\ op = "inverse" => arg_a # 0)
        => /\ error = ""
           /\ \A k \in 1..Len(reads) : reads[k] \in 0..(field_size - 2)
           /\ QueryOn(FirstHalf, op, arg_a, arg_b)
                 = [value |-> result, error |-> error, reads |-> reads]

C10_Witness ==
    /\ Returned("divide") /\ m >= 2
    /\ ListGet(log_table, arg_a) < ListGet(log_table, arg_b)
    /\ arg_a # 0
    /\ Len(reads) = 1
    /\ reads[1] > 0
    /\ QueryOn(FirstHalf, op, arg_a, arg_b).value = result

====
